---- MODULE Spec2Model ----
(***************************************************************************)
(* precise-float (index.js): stringify and parse of JavaScript numbers     *)
(* with full precision.                                                    *)
(*                                                                         *)
(* A JavaScript number is modelled by its IEEE-754 binary64 bit pattern, a *)
(* sequence of 64 bits, most significant first: bit 63 (the sign), bits    *)
(* 62..52 (the exponent field), bits 51..0 (the mantissa field).  A string *)
(* is a sequence of one-character strings.  A Decimal (decimal.js) is an   *)
(* exact non-negative decimal number held as base-10000 limbs; TLC's       *)
(* integers are 32 bits wide, so every quantity that can reach 2^31 (the   *)
(* 52-bit mantissa, every Decimal) is held in that form.                   *)
(***************************************************************************)
EXTENDS Integers, Sequences, FiniteSets, TLC

\* ------------------------------------------------------------------------
\* Decimal (decimal.js), exact arithmetic on non-negative decimals.
\* A value is [l |-> limbs, s |-> scale]: the integer written by the limbs
\* (base LimbBase, most significant first) times LimbBase^(-s).  Canonical
\* form: no leading zero limb; no trailing zero limb when s > 0; zero is
\* [l |-> <<>>, s |-> 0].  Canonical values are equal iff they are the same
\* record.
\* ------------------------------------------------------------------------

LimbBase == 10^4

Max(a, b) == IF a >= b THEN a ELSE b

Min(a, b) == IF a <= b THEN a ELSE b

DecZero == [l |-> <<>>, s |-> 0]

\* Force a function over 1..n into a tuple.
Tup(f) == SubSeq(f, 1, Len(f))

\* l without its leading zero limbs.
StripLead(l) ==
    IF \A i \in 1..Len(l) : l[i] = 0 THEN <<>>
    ELSE LET first == CHOOSE i \in 1..Len(l) : l[i] # 0 /\ \A j \in 1..(i - 1) : l[j] = 0
         IN  SubSeq(l, first, Len(l))

\* The position of the last non-zero limb of a non-empty l without leading zeros.
LastNonZero(l) == CHOOSE i \in 1..Len(l) : l[i] # 0 /\ \A j \in (i + 1)..Len(l) : l[j] = 0

\* x without its last `drop` limbs, all fractional.
DropTrail(x, drop) == [l |-> SubSeq(x.l, 1, Len(x.l) - drop), s |-> x.s - drop]

\* x without its trailing zero limbs, as far as it has fractional limbs.
StripTrail(x) ==
    IF x.l = <<>> THEN DecZero
    ELSE DropTrail(x, Min(Len(x.l) - LastNonZero(x.l), x.s))

Canon(l, s) == StripTrail([l |-> StripLead(l), s |-> s])

\* One pass of carry propagation over limbs that may exceed the base.
CarryPass(c) ==
    LET n == Len(c)
    IN  Tup([i \in 1..(n + 1) |->
              (IF i > 1 THEN (c[i - 1] % LimbBase) ELSE 0)
            + (IF i <= n THEN (c[i] \div LimbBase) ELSE 0)])

RECURSIVE Carry(_)
Carry(c) ==
    IF \A i \in 1..Len(c) : c[i] < LimbBase THEN c ELSE Carry(StripLead(CarryPass(c)))

\* new Decimal(n) for a small non-negative integer n.
DecFromNat(n) == Canon(Carry(<<n>>), 0)

\* x / 2: halving is local in base 10 (no carry chain).
HalveLimbs(a) ==
    Tup([i \in 1..Len(a) |->
          (a[i] + (IF i > 1 /\ a[i - 1] % 2 = 1 THEN LimbBase ELSE 0)) \div 2])

DropLeadZero(h) == IF h[1] = 0 THEN SubSeq(h, 2, Len(h)) ELSE h

Halve(x) ==
    IF x.l = <<>> THEN x
    ELSE IF x.l[Len(x.l)] % 2 = 1
         THEN [l |-> DropLeadZero(HalveLimbs(Append(x.l, 0))), s |-> x.s + 1]
         ELSE [l |-> DropLeadZero(HalveLimbs(x.l)), s |-> x.s]

\* x * 2: doubling is local in base 10 as well.
DoubleLimbs(l) ==
    Tup([i \in 1..Len(l) |->
          ((2 * l[i]) % LimbBase)
          + (IF i < Len(l) /\ 2 * l[i + 1] >= LimbBase THEN 1 ELSE 0)])

DoubleCarry(l) == IF 2 * l[1] >= LimbBase THEN <<1>> \o DoubleLimbs(l) ELSE DoubleLimbs(l)

DropLastZero(e, s) ==
    IF s > 0 /\ e[Len(e)] = 0
    THEN [l |-> SubSeq(e, 1, Len(e) - 1), s |-> s - 1]
    ELSE [l |-> e, s |-> s]

Double(x) == IF x.l = <<>> THEN x ELSE DropLastZero(DoubleCarry(x.l), x.s)

\* x * 2^k (k may be negative), by k doublings or halvings.  The recursion
\* splits k so that its depth is logarithmic; the test on y.s forces y.
RECURSIVE MulPow2(_, _)
MulPow2(x, k) ==
    IF k = 0 THEN x
    ELSE IF k = 1 THEN Double(x)
    ELSE IF k = -1 THEN Halve(x)
    ELSE LET y == MulPow2(x, k \div 2)
         IN  IF y.s >= 0 THEN MulPow2(y, k - (k \div 2)) ELSE y

\* Limb i of x counted from the limb of weight LimbBase^0 (position 0),
\* positive positions to the left.
LimbAt(x, p) ==
    LET i == Len(x.l) - x.s - p
    IN  IF i >= 1 /\ i <= Len(x.l) THEN x.l[i] ELSE 0

\* The highest position holding a limb, and the lowest.
TopPos(x) == Len(x.l) - x.s - 1

\* Decimal.plus
Plus(x, y) ==
    IF x.l = <<>> THEN y
    ELSE IF y.l = <<>> THEN x
    ELSE LET s == Max(x.s, y.s)
             top == Max(TopPos(x), TopPos(y))
             n == top + s + 1
         IN  Canon(Carry(Tup([i \in 1..n |-> LimbAt(x, top - i + 1) + LimbAt(y, top - i + 1)])), s)

\* The sum over i in lo..hi of a[i] * b[k + 1 - i].
RECURSIVE ColumnSum(_, _, _, _, _)
ColumnSum(a, b, k, lo, hi) ==
    IF lo > hi THEN 0
    ELSE IF lo = hi
         THEN (IF k + 1 - lo >= 1 /\ k + 1 - lo <= Len(b) THEN a[lo] * b[k + 1 - lo] ELSE 0)
         ELSE ColumnSum(a, b, k, lo, (lo + hi) \div 2)
              + ColumnSum(a, b, k, ((lo + hi) \div 2) + 1, hi)

\* Decimal.times (schoolbook; a is the shorter operand).
Times(x, y) ==
    IF x.l = <<>> \/ y.l = <<>> THEN DecZero
    ELSE LET a == IF Len(x.l) <= Len(y.l) THEN x.l ELSE y.l
             b == IF Len(x.l) <= Len(y.l) THEN y.l ELSE x.l
             c == Tup([k \in 1..(Len(a) + Len(b) - 1) |-> ColumnSum(a, b, k, 1, Len(a))])
         IN  Canon(Carry(c), x.s + y.s)

\* The integer part of x, and whether x is an integer.
IntPart(x) ==
    IF Len(x.l) <= x.s THEN DecZero
    ELSE [l |-> SubSeq(x.l, 1, Len(x.l) - x.s), s |-> 0]

\* x < y for integers x and y (canonical, s = 0).
IntLess(x, y) ==
    IF Len(x.l) # Len(y.l) THEN Len(x.l) < Len(y.l)
    ELSE \E i \in 1..Len(x.l) :
            /\ x.l[i] < y.l[i]
            /\ \A j \in 1..(i - 1) : x.l[j] = y.l[j]

\* floor(x / 2) for an integer x.
FloorHalve(x) == IntPart(Halve(x))

DecOne == [l |-> <<1>>, s |-> 0]

\* 2^k as a Decimal.
TwoTo(k) == MulPow2(DecOne, k)

\* The number of decimal digits of a limb (0 for 0).
LimbLen(v) == IF v >= 1000 THEN 4 ELSE IF v >= 100 THEN 3 ELSE IF v >= 10 THEN 2 ELSE IF v >= 1 THEN 1 ELSE 0

\* floor(log10(x)) for x > 0.
Log10Floor(x) == 4 * (Len(x.l) - x.s - 1) + LimbLen(x.l[1]) - 1

\* ------------------------------------------------------------------------
\* Characters, bits and bytes.
\* ------------------------------------------------------------------------

DigitChars == <<"0", "1", "2", "3", "4", "5", "6", "7", "8", "9">>

DigitSet == {DigitChars[i] : i \in 1..10}

DigitChar(d) == DigitChars[d + 1]

DigitVal(c) == CHOOSE d \in 0..9 : DigitChars[d + 1] = c

\* Bit i of a natural number (bit 0 the least significant).
BitOf(a, i) == (a \div 2^i) % 2

\* JavaScript a & b on bytes.
BitAnd(a, b) ==
    BitOf(a, 0) * BitOf(b, 0) + 2 * BitOf(a, 1) * BitOf(b, 1)
    + 4 * BitOf(a, 2) * BitOf(b, 2) + 8 * BitOf(a, 3) * BitOf(b, 3)
    + 16 * BitOf(a, 4) * BitOf(b, 4) + 32 * BitOf(a, 5) * BitOf(b, 5)
    + 64 * BitOf(a, 6) * BitOf(b, 6) + 128 * BitOf(a, 7) * BitOf(b, 7)

\* JavaScript a << k and a >> k on small non-negative 32-bit integers.
ShiftLeft(a, k) == a * 2^k

ShiftRight(a, k) == a \div 2^k

\* The value of a bit sequence, most significant first (below 2^31).
RECURSIVE BitsToNat(_)
BitsToNat(b) ==
    IF b = <<>> THEN 0
    ELSE IF Len(b) = 1 THEN b[1]
    ELSE LET h == Len(b) \div 2
         IN  BitsToNat(SubSeq(b, 1, h)) * 2^(Len(b) - h) + BitsToNat(SubSeq(b, h + 1, Len(b)))

\* The n low bits of a natural number, most significant first.
NatToBits(v, n) == Tup([i \in 1..n |-> BitOf(v, n - i)])

\* ------------------------------------------------------------------------
\* JavaScript numbers: 64 bits, most significant first.
\* ------------------------------------------------------------------------

ExponentBits == 11

MantissaBits == 52

ExponentBias == 1023

Zeros(n) == [i \in 1..n |-> 0]

Ones(n) == [i \in 1..n |-> 1]

MakeNumber(sign, expField, mantBits) == <<sign>> \o NatToBits(expField, ExponentBits) \o mantBits

SignOf(v) == v[1]

ExpFieldOf(v) == BitsToNat(SubSeq(v, 2, 1 + ExponentBits))

MantBitsOf(v) == SubSeq(v, 2 + ExponentBits, 1 + ExponentBits + MantissaBits)

ExpFieldMax == 2^ExponentBits - 1

PosZero == MakeNumber(0, 0, Zeros(MantissaBits))

NegZero == MakeNumber(1, 0, Zeros(MantissaBits))

PosInfinity == MakeNumber(0, ExpFieldMax, Zeros(MantissaBits))

NegInfinity == MakeNumber(1, ExpFieldMax, Zeros(MantissaBits))

\* The NaN a JavaScript expression evaluates to (the quiet NaN).
NaNValue == MakeNumber(0, ExpFieldMax, <<1>> \o Zeros(MantissaBits - 1))

\* Number.isNaN
NumberIsNaN(v) == ExpFieldOf(v) = ExpFieldMax /\ MantBitsOf(v) # Zeros(MantissaBits)

\* A variant of NumberIsFinite that only excludes NaN (!Number.isNaN).
NumberIsNotNaN(v) == ~NumberIsNaN(v)

\* Number.isFinite
NumberIsFinite(v) == ExpFieldOf(v) # ExpFieldMax

IsZeroNumber(v) == ExpFieldOf(v) = 0 /\ MantBitsOf(v) = Zeros(MantissaBits)

\* value < 0
LessThanZero(v) == SignOf(v) = 1 /\ ~NumberIsNaN(v) /\ ~IsZeroNumber(v)

\* A variant of Negate that leaves the sign as it is.
NegateKeepingSign(v) == v

\* -value
Negate(v) == [v EXCEPT ![1] = 1 - @]

\* new Uint8Array(new Float64Array([v]).buffer): the eight bytes of v, byte 0
\* the least significant (little-endian host).
Uint8ArrayOf(v) == [j \in 0..7 |-> BitsToNat(SubSeq(v, 57 - 8 * j, 64 - 8 * j))]

\* ------------------------------------------------------------------------
\* The program state.
\* ------------------------------------------------------------------------

VARIABLES
    precision,  \* Decimal's working precision (Decimal.set)
    pc,         \* "idle" between calls, "done" after a call
    op,         \* the operation last called
    params,     \* its arguments
    outcome,    \* what it returned or threw
    calls,      \* the _getExactDecimal calls it made: argument and result
    source,     \* the number whose stringify result is being parsed, if any
    audit,      \* reference values for the call, computed beside it
    memo        \* an earlier call and its outcome, or NoCall

vars == <<precision, pc, op, params, outcome, calls, source, audit, memo>>

Precision == 10000

\* Decimal's rounding of a result to `precision` significant digits
\* (ROUND_HALF_UP, decimal.js's default rounding mode).
\* x with limb q cut to a multiple of `unit`, the limbs after it zero, and
\* `unit` added when the first digit dropped, `next`, is 5 or more.
RoundLimbs(x, q, unit, next) ==
    Canon(Carry(Tup([i \in 1..Len(x.l) |->
                      IF i < q THEN x.l[i]
                      ELSE IF i = q
                           THEN (x.l[q] \div unit) * unit + (IF next >= 5 THEN unit ELSE 0)
                           ELSE 0])),
          x.s)

\* The last digit kept is digit r (1..4) of limb q.
RoundAt(x, q, r) ==
    IF q > Len(x.l) THEN x
    ELSE RoundLimbs(x, q, 10^(4 - r),
                    IF r < 4 THEN (x.l[q] \div 10^(3 - r)) % 10
                    ELSE IF q < Len(x.l) THEN x.l[q + 1] \div 1000 ELSE 0)

\* c: the digits kept, counted from the first digit place of the first limb.
RoundToDigits(x, c) == RoundAt(x, (c + 3) \div 4, c - 4 * (((c + 3) \div 4) - 1))

\* A variant of RoundSig for a working precision of 20 significant digits
\* (decimal.js's default precision).
RoundSigDefault(x) ==
    IF 4 * Len(x.l) <= 20 THEN x
    ELSE RoundToDigits(x, (4 - LimbLen(x.l[1])) + 20)

RoundSig(x) ==
    IF 4 * Len(x.l) <= precision THEN x
    ELSE RoundToDigits(x, (4 - LimbLen(x.l[1])) + precision)

\* new Decimal(x).dividedBy(Math.pow(2, k))
DividedByTwoTo(x, k) == RoundSig(MulPow2(x, -k))

\* Decimal.plus
DecPlus(x, y) == RoundSig(Plus(x, y))

\* new Decimal(2).toPower(k)
TwoToPower(k) == RoundSig(TwoTo(k))

\* Decimal.times
DecTimes(x, y) == RoundSig(Times(x, y))

\* A variant of DecEquals that compares the magnitude and the leading four
\* digit places only.
DecEqualsLeading(x, y) ==
    IF x.l = <<>> \/ y.l = <<>> THEN x.l = y.l
    ELSE Len(x.l) - x.s = Len(y.l) - y.s /\ x.l[1] = y.l[1]

\* Decimal.equals
DecEquals(x, y) == x = y

\* The four characters of a limb.
LimbChar(v, k) == DigitChar((v \div 10^(4 - k)) % 10)

\* Decimal.toFixed(): plain notation, no exponent, no redundant zeros.
toFixed(x) ==
    LET nInt == Len(x.l) - x.s
        lead == IF nInt > 0 THEN 4 - LimbLen(x.l[1]) ELSE 0
        intChars ==
            IF nInt <= 0 THEN <<"0">>
            ELSE Tup([k \in 1..(4 * nInt - lead) |->
                       LimbChar(x.l[((k + lead - 1) \div 4) + 1], ((k + lead - 1) % 4) + 1)])
        last == IF x.s > 0 THEN x.l[Len(x.l)] ELSE 0
        trail == IF last % 1000 = 0 THEN 3 ELSE IF last % 100 = 0 THEN 2 ELSE IF last % 10 = 0 THEN 1 ELSE 0
        fracChars ==
            Tup([k \in 1..(4 * x.s - trail) |->
                  LET p == ((k - 1) \div 4) + 1   \* fractional limb, 1 the highest
                      i == Len(x.l) - x.s + p
                  IN  IF i >= 1 THEN LimbChar(x.l[i], ((k - 1) % 4) + 1) ELSE "0"])
    IN  IF x.s = 0 THEN intChars ELSE intChars \o <<".">> \o fracChars

\* Math.pow(1 << 8, i): a power of two below 2^53, exact as a number.
MathPow256(i) == TwoTo(8 * i)

\* The product and sum of non-negative integer numbers whose result is below
\* 2^53: exact in binary64 arithmetic.
NumTimes(b, y) == Times(DecFromNat(b), y)

\* _decodeFloat: the exponent and mantissa fields of a number, read from its
\* bytes.  The mantissa can reach 2^52 - 1 and is held as an exact integer.
MaskedTimes(byte, mask, i) == NumTimes(BitAnd(byte, mask), MathPow256(i))

NumPlus(a, b) == Plus(a, b)

_decodeFloat(positiveNumber) ==
    LET Fields(uint8Array) ==
            [exponent |->
                ShiftLeft(BitAnd(uint8Array[7], 127), 4)
                + ShiftRight(BitAnd(uint8Array[6], 240), 4),
             mantissa |->
                NumPlus(NumPlus(NumPlus(NumPlus(NumPlus(NumPlus(
                    MaskedTimes(uint8Array[6], 15, 6),
                    MaskedTimes(uint8Array[5], 255, 5)),
                    MaskedTimes(uint8Array[4], 255, 4)),
                    MaskedTimes(uint8Array[3], 255, 3)),
                    MaskedTimes(uint8Array[2], 255, 2)),
                    MaskedTimes(uint8Array[1], 255, 1)),
                    MaskedTimes(uint8Array[0], 255, 0))]
    IN  Fields(Uint8ArrayOf(positiveNumber))

\* A variant of PowerOf without the special case of exponent 0.
PowerOfUnadjusted(exponent) == TwoToPower(exponent - ExponentBias)

\* new Decimal(2).toPower((exponent === 0 ? 1 : exponent) - 1023)
PowerOf(exponent) == TwoToPower((IF exponent = 0 THEN 1 ELSE exponent) - ExponentBias)

\* _getExactDecimal: the exact decimal value of a non-negative finite number.
_getExactDecimal(positiveNumber) ==
    LET Exact(exponent, mantissa) ==
            DecTimes(DecPlus(DividedByTwoTo(mantissa, MantissaBits),
                             IF exponent = 0 THEN DecZero ELSE DecOne),
                     PowerOf(exponent))
        Decoded(d) == Exact(d.exponent, d.mantissa)
    IN  Decoded(_decodeFloat(positiveNumber))

\* JavaScript values: numbers, strings, and values of another type.
NumberValue(v) == [type |-> "number", v |-> v]

StringValue(s) == [type |-> "string", v |-> s]

OtherValue(t) == [type |-> t, v |-> <<>>]

\* What a call ends with: a returned value or a thrown error, the
\* _getExactDecimal calls made on the way, and the working precision the
\* call leaves behind (no statement of either function assigns it).
\* A variant of Return after which the working precision is 20.
ReturnReconfigured(v, made) == [kind |-> "return", value |-> v, calls |-> made, precision |-> 20]

Return(v, made) == [kind |-> "return", value |-> v, calls |-> made, precision |-> precision]

Throw(kind, v, made) == [kind |-> kind, value |-> v, calls |-> made, precision |-> precision]

Undefined == OtherValue("undefined")

Called(arg, result) == [arg |-> arg, result |-> result]

NaNChars == <<"N", "a", "N">>

InfinityChars == <<"I", "n", "f", "i", "n", "i", "t", "y">>

\* A variant of WrongArity that ignores arguments after the first.
NoArgument(ps) == Len(ps) < 1

\* params.length !== 1
WrongArity(ps) == Len(ps) # 1

\* A variant of IsNegative by comparison alone.
IsBelowZero(v) == LessThanZero(v)

\* value < 0 || Object.is(-0, value)
IsNegative(v) == LessThanZero(v) \/ v = NegZero

\* stringify(...params)
stringify(ps) ==
    IF WrongArity(ps) THEN Throw("ArityError", Undefined, <<>>)
    ELSE LET value == ps[1]
         IN  IF value.type # "number" THEN Throw("TypeError", Undefined, <<>>)
             ELSE IF NumberIsNaN(value.v) THEN Return(StringValue(NaNChars), <<>>)
             ELSE IF value.v = PosInfinity THEN Return(StringValue(InfinityChars), <<>>)
             ELSE IF value.v = NegInfinity THEN Return(StringValue(<<"-">> \o InfinityChars), <<>>)
             ELSE LET Fixed(isNegative, positiveNumber, exact) ==
                          Return(StringValue((IF isNegative THEN <<"-">> ELSE <<>>) \o toFixed(exact)),
                                 <<Called(positiveNumber, exact)>>)
                      Positive(isNegative, positiveNumber) ==
                          Fixed(isNegative, positiveNumber, _getExactDecimal(positiveNumber))
                      Signed(isNegative) ==
                          Positive(isNegative, IF isNegative THEN Negate(value.v) ELSE value.v)
                  IN  Signed(IsNegative(value.v))

\* ------------------------------------------------------------------------
\* parse
\* ------------------------------------------------------------------------

\* The regular expression of parse,
\*   /^-?(0|([1-9][0-9]*))(\.[0-9]+)?([eE][+-]?[0-9]+)?$/
\* as the sets of positions a match can have reached after each group
\* (position p: the first p - 1 characters are consumed).
IsDigitAt(str, p) == p >= 1 /\ p <= Len(str) /\ str[p] \in DigitSet

IsCharAt(str, p, cs) == p >= 1 /\ p <= Len(str) /\ str[p] \in cs

\* [0-9]* from position p: every position reachable over digits only.
DigitRun(str, p) ==
    LET stops == {i \in p..Len(str) : ~IsDigitAt(str, i)}
        stop == IF stops = {} THEN Len(str) + 1
                ELSE CHOOSE i \in stops : \A j \in stops : i <= j
    IN  p..stop

\* [0-9]+ from position q.
DigitsEnds(str, q) == IF IsDigitAt(str, q) THEN DigitRun(str, q + 1) ELSE {}

\* -?
MinusEnds(str, p) == {p} \cup (IF IsCharAt(str, p, {"-"}) THEN {p + 1} ELSE {})

\* A variant of IntegerEnds for [0-9]+, which admits leading zeros.
AnyDigitsEnds(str, p) == DigitsEnds(str, p)

\* (0|([1-9][0-9]*))
IntegerEnds(str, p) ==
    (IF IsCharAt(str, p, {"0"}) THEN {p + 1} ELSE {})
    \cup (IF IsDigitAt(str, p) /\ str[p] # "0" THEN DigitRun(str, p + 1) ELSE {})

\* (\.[0-9]+)?
FractionEnds(str, p) ==
    {p} \cup (IF IsCharAt(str, p, {"."}) THEN DigitsEnds(str, p + 1) ELSE {})

\* ([eE][+-]?[0-9]+)?
ExponentEnds(str, p) ==
    {p} \cup (IF IsCharAt(str, p, {"e", "E"})
              THEN DigitsEnds(str, p + 1)
                   \cup (IF IsCharAt(str, p + 1, {"+", "-"}) THEN DigitsEnds(str, p + 2) ELSE {})
              ELSE {})

\* ^...$: a match starts at position 1 and ends after the last character.
RegExpTest(str) ==
    (Len(str) + 1) \in
        UNION {ExponentEnds(str, r) :
                 r \in UNION {FractionEnds(str, q) :
                                q \in UNION {IntegerEnds(str, p) : p \in MinusEnds(str, 1)}}}

\* The value of a string of decimal digits (below 2^31).
RECURSIVE DigitsToNat(_)
DigitsToNat(ds) ==
    IF ds = <<>> THEN 0
    ELSE 10 * DigitsToNat(SubSeq(ds, 1, Len(ds) - 1)) + DigitVal(ds[Len(ds)])

\* The limbs of the integer written by `digits` followed by `pad` zeros.
DigitLimbs(digits, pad) ==
    LET n == Len(digits) + pad
        \* digit k of the padded string, counted from the right (k = 0 the last)
        digitAt(k) == IF k < pad \/ k >= n THEN 0 ELSE DigitVal(digits[n - k])
    IN  Tup([i \in 1..((n + 3) \div 4) |->
              LET low == 4 * (((n + 3) \div 4) - i)
              IN  digitAt(low) + 10 * digitAt(low + 1)
                  + 100 * digitAt(low + 2) + 1000 * digitAt(low + 3)])

\* The integer written by `digits`, times 10^shift.
DecFromDigits(digits, shift) ==
    IF shift >= 0 THEN Canon(DigitLimbs(digits, shift), 0)
    ELSE Canon(DigitLimbs(digits, (4 - ((-shift) % 4)) % 4),
               ((-shift) + ((4 - ((-shift) % 4)) % 4)) \div 4)

\* A variant of ExponentOf that drops the exponent's sign.
ExponentUnsigned(str, ePos) ==
    DigitsToNat(SubSeq(str, IF IsCharAt(str, ePos + 1, {"+", "-"}) THEN ePos + 2 ELSE ePos + 1,
                       Len(str)))

\* The exponent written after position ePos (0 when there is none).
ExponentOf(str, ePos) ==
    (IF IsCharAt(str, ePos + 1, {"-"}) THEN -1 ELSE 1)
    * DigitsToNat(SubSeq(str, IF IsCharAt(str, ePos + 1, {"+", "-"}) THEN ePos + 2 ELSE ePos + 1,
                         Len(str)))

\* The position of the character of str that is in cs, or `none`.
PlaceOf(str, cs, none) ==
    IF \A i \in 1..Len(str) : str[i] \notin cs THEN none
    ELSE CHOOSE i \in 1..Len(str) : str[i] \in cs

\* new Decimal(str) for a string the regular expression accepts, without its
\* sign: the exact value of the literal.
DecFromString(str) ==
    LET Parts(intChars, fracChars, e) == DecFromDigits(intChars \o fracChars, e - Len(fracChars))
        Split(dotPos, ePos) ==
            Parts(SubSeq(str, 1, dotPos - 1), SubSeq(str, dotPos + 1, ePos - 1), ExponentOf(str, ePos))
        Mantissa(ePos) == Split(PlaceOf(str, {"."}, ePos), ePos)
    IN  Mantissa(PlaceOf(str, {"e", "E"}, Len(str) + 1))

\* 2^52 and 2^53: the range of the integer significand of a normal number.
TwoTo52 == TwoTo(MantissaBits)

TwoTo53 == TwoTo(MantissaBits + 1)

\* Scale q = x * 2^k until 2^52 <= q < 2^53, or k reaches the subnormal limit.
MaxScale == ExponentBias - 1 + MantissaBits

RECURSIVE NormaliseScale(_, _)
NormaliseScale(q, k) ==
    IF ~IntLess(IntPart(q), TwoTo53) THEN NormaliseScale(Halve(q), k - 1)
    ELSE IF IntLess(IntPart(q), TwoTo52) /\ k < MaxScale THEN NormaliseScale(Double(q), k + 1)
    ELSE [q |-> q, k |-> k]

\* The n low bits of an integer Decimal, most significant first.
RECURSIVE ShiftOutBits(_, _)
ShiftOutBits(st, n) ==
    IF n = 0 THEN st
    ELSE IF n = 1 THEN [x |-> FloorHalve(st.x), bits |-> <<LimbAt(st.x, 0) % 2>> \o st.bits]
    ELSE LET y == ShiftOutBits(st, n \div 2)
         IN  IF y.x.s = 0 THEN ShiftOutBits(y, n - (n \div 2)) ELSE y

DecToBits(x, n) == ShiftOutBits([x |-> x, bits |-> <<>>], n).bits

\* The number sig * 2^(-k) for an integer sig < 2^53 that is at least 2^52
\* unless k = MaxScale: Infinity when its exponent field would be all ones.
Pack(sig, k) ==
    LET Field(expField) ==
            IF expField >= ExpFieldMax THEN PosInfinity
            ELSE MakeNumber(0, expField, DecToBits(sig, MantissaBits))
    IN  Field(IF IntLess(sig, TwoTo52) THEN 0 ELSE MantissaBits - k + ExponentBias)

\* A significand rounded up to 2^53 is 2^52 at the next exponent.
Renormalise(rounded, k) ==
    IF rounded = TwoTo53 THEN Pack(TwoTo52, k - 1) ELSE Pack(rounded, k)

\* Whether q, not an integer, rounds up to the next integer: its fraction
\* is above a half, or is a half and the integer part is odd.
RoundsUp(q) ==
    LET half == LimbAt(q, -1)
    IN  \/ half > LimbBase \div 2
        \/ half = LimbBase \div 2 /\ q.s > 1
        \/ half = LimbBase \div 2 /\ q.s = 1 /\ LimbAt(q, 0) % 2 = 1

RoundHalfEven(q) ==
    IF q.s > 0 /\ RoundsUp(q) THEN Plus(IntPart(q), DecOne) ELSE IntPart(q)

\* Decimal.toNumber() for a non-negative Decimal: the nearest number, ties
\* to even, Infinity when the rounded value is out of range (the value of
\* the unary + of decimal.js's toNumber on the Decimal's digits).
toNumber(x) ==
    LET Rounded(n) == Renormalise(RoundHalfEven(n.q), n.k)
        Scaled(k0) == Rounded(NormaliseScale(MulPow2(x, k0), k0))
        \* e2: about floor(log2(x))
        Near(e2) ==
            IF e2 > ExponentBias + 8 THEN PosInfinity
            ELSE IF e2 < -(MaxScale + 12) THEN PosZero
            ELSE Scaled(Min(MantissaBits - e2, MaxScale))
    IN  IF x.l = <<>> THEN PosZero
        ELSE Near((Log10Floor(x) * 3322) \div 1000)

\* parse(...params)
parse(ps) ==
    IF WrongArity(ps) THEN Throw("ArityError", Undefined, <<>>)
    ELSE LET value == ps[1]
         IN  IF value.type # "string" THEN Throw("TypeError", Undefined, <<>>)
             ELSE IF value.v = NaNChars THEN Return(NumberValue(NaNValue), <<>>)
             ELSE IF value.v = InfinityChars THEN Return(NumberValue(PosInfinity), <<>>)
             ELSE IF value.v = <<"-">> \o InfinityChars THEN Return(NumberValue(NegInfinity), <<>>)
             ELSE IF ~RegExpTest(value.v) THEN Throw("SyntaxError", Undefined, <<>>)
             ELSE LET Compared(isNegative, positiveDecimal, positiveNumber, positiveDecimal2) ==
                          IF ~DecEquals(positiveDecimal2, positiveDecimal)
                          THEN Throw("PrecisionLossError",
                                     StringValue(toFixed(positiveDecimal2)),
                                     <<Called(positiveNumber, positiveDecimal2)>>)
                          ELSE Return(NumberValue(IF isNegative THEN Negate(positiveNumber)
                                                  ELSE positiveNumber),
                                      <<Called(positiveNumber, positiveDecimal2)>>)
                      Converted(isNegative, positiveDecimal, positiveNumber) ==
                          IF ~NumberIsFinite(positiveNumber)
                          THEN Throw("MagnitudeError", Undefined, <<>>)
                          ELSE Compared(isNegative, positiveDecimal, positiveNumber,
                                        _getExactDecimal(positiveNumber))
                      Read(isNegative, positiveDecimal) ==
                          Converted(isNegative, positiveDecimal, toNumber(positiveDecimal))
                      Signed(isNegative) ==
                          Read(isNegative,
                               DecFromString(IF isNegative THEN SubSeq(value.v, 2, Len(value.v))
                                             ELSE value.v))
                  IN  Signed(value.v[1] = "-")

\* ------------------------------------------------------------------------
\* Reference values: the IEEE-754 reading of a bit pattern and the grammar
\* of decimal literals, computed on their own (not through _decodeFloat, the
\* regular expression or toNumber), for the properties to compare with.
\* ------------------------------------------------------------------------

\* The integer a bit sequence writes, most significant bit first.
RECURSIVE BitsToDec(_)
BitsToDec(b) ==
    LET Joined(high, low, n) == Plus(MulPow2(high, n), low)
        SplitAt(h) ==
            Joined(BitsToDec(SubSeq(b, 1, h)), BitsToDec(SubSeq(b, h + 1, Len(b))), Len(b) - h)
    IN  IF Len(b) <= 8 THEN DecFromNat(BitsToNat(b)) ELSE SplitAt(Len(b) \div 2)

\* The magnitude of a finite number: significand * 2^(max(e, 1) - 1075),
\* the significand having the hidden bit when e > 0.
IeeeValue(v) ==
    LET Scaled(e) ==
            MulPow2(BitsToDec((IF e = 0 THEN <<0>> ELSE <<1>>) \o MantBitsOf(v)),
                    Max(e, 1) - (ExponentBias + MantissaBits))
    IN  Scaled(ExpFieldOf(v))

\* The largest finite magnitude, (2^53 - 1) * 2^971, and the least magnitude
\* that rounds to Infinity, 2^1024 - 2^970 (half an ulp above it).
MaxFinite == MulPow2(BitsToDec(Ones(MantissaBits + 1)), ExponentBias - MantissaBits)

RoundingLimit == MulPow2(BitsToDec(Ones(MantissaBits + 2)), ExponentBias - MantissaBits - 1)

\* floor(log10(2^k)) for 0 <= k <= 2000 (log10(2) = 0.30103 to five places).
Log10OfTwoTo(k) == (k * 30103) \div 100000

\* An integer part and whether a fraction follows it, against a bound.
Exceeds(int, hasFraction, bound) == IntLess(bound, int) \/ (int = bound /\ hasFraction)

ExceedsMaxFinite(x) ==
    /\ x.l # <<>>
    /\ Log10Floor(x) >= Log10OfTwoTo(ExponentBias + 1)
    /\ Exceeds(IntPart(x), x.s > 0, MaxFinite)

AtLeastRoundingLimit(x) ==
    /\ x.l # <<>>
    /\ Log10Floor(x) >= Log10OfTwoTo(ExponentBias + 1)
    /\ ~IntLess(IntPart(x), RoundingLimit)

\* Divide an integer by two while it is even, at most n times.
RECURSIVE StripTwos(_, _)
StripTwos(st, n) ==
    IF n = 0 \/ LimbAt(st.x, 0) % 2 = 1 THEN st
    ELSE IF n = 1 THEN [x |-> FloorHalve(st.x), t |-> st.t + 1]
    ELSE LET y == StripTwos(st, n \div 2)
         IN  IF LimbAt(y.x, 0) % 2 = 1 THEN y ELSE StripTwos(y, n - (n \div 2))

\* x is the magnitude of a finite number: x = N * 2^k for an integer
\* N < 2^53 and -1074 <= k <= 971.  With x = odd * 2^k0 this is
\* k0 >= -1074 and odd * 2^max(0, k0 - 971) < 2^53.
Representable(x) ==
    LET InRange(odd, k0) ==
            /\ k0 >= -MaxScale
            /\ k0 <= ExponentBias
            /\ IntLess(MulPow2(odd, Max(0, k0 - (ExponentBias - MantissaBits))), TwoTo53)
        Stripped(st) == InRange(st.x, st.t - 4 * x.s)
        Whole(whole) ==
            IF whole.s > 0 THEN FALSE
            ELSE Stripped(StripTwos([x |-> whole, t |-> 0], 16 * Len(whole.l)))
    IN  IF x.l = <<>> THEN TRUE
        ELSE IF Log10Floor(x) > Log10OfTwoTo(ExponentBias + 1) \/ 4 * x.s > MaxScale + 4 THEN FALSE
        ELSE Whole(MulPow2(x, 4 * x.s))

AllDigits(cs) == \A i \in 1..Len(cs) : cs[i] \in DigitSet

LeastOf(S) == CHOOSE i \in S : \A j \in S : i <= j

\* The grammar of decimal literals: optional '-', an integer part that is a
\* single 0 or starts with a non-zero digit, optionally '.' and one or more
\* digits, optionally an exponent: e or E, optional sign, one or more digits.
IntegerPart(int) == int # <<>> /\ AllDigits(int) /\ (Len(int) = 1 \/ int[1] # "0")

DigitsPart(cs) == cs # <<>> /\ AllDigits(cs)

MantissaPart(mant) ==
    LET dots == {i \in 1..Len(mant) : mant[i] = "."}
    IN  IF dots = {} THEN IntegerPart(mant)
        ELSE /\ IntegerPart(SubSeq(mant, 1, LeastOf(dots) - 1))
             /\ DigitsPart(SubSeq(mant, LeastOf(dots) + 1, Len(mant)))

ExponentPart(expo) ==
    DigitsPart(IF expo # <<>> /\ expo[1] \in {"+", "-"} THEN SubSeq(expo, 2, Len(expo)) ELSE expo)

UnsignedLiteral(body) ==
    LET es == {i \in 1..Len(body) : body[i] \in {"e", "E"}}
    IN  IF es = {} THEN MantissaPart(body)
        ELSE /\ MantissaPart(SubSeq(body, 1, LeastOf(es) - 1))
             /\ ExponentPart(SubSeq(body, LeastOf(es) + 1, Len(body)))

DecimalLiteral(str) ==
    UnsignedLiteral(IF str # <<>> /\ str[1] = "-" THEN SubSeq(str, 2, Len(str)) ELSE str)

SpecialStrings == {NaNChars, InfinityChars, <<"-">> \o InfinityChars}

\* The reference values of the _getExactDecimal calls a call made.
AuditCall(v) ==
    LET Fields(fields) ==
            [exponent |-> fields.exponent,
             mantissa |-> fields.mantissa,
             mantissaInRange |-> IntLess(fields.mantissa, TwoTo52),
             ieeeExponent |-> ExpFieldOf(v),
             ieeeMantissa |-> BitsToDec(MantBitsOf(v)),
             ieeeValue |-> IeeeValue(v)]
    IN  Fields(_decodeFloat(v))

AuditCalls(made) == Tup([i \in 1..Len(made) |-> AuditCall(made[i].arg)])

NoLiteral == [grammar |-> FALSE]

\* The reference values of a decimal literal: its exact value and how that
\* value lies among the numbers.
AuditExact(exactInput) ==
    [grammar |-> TRUE,
     exactInput |-> exactInput,
     representable |-> Representable(exactInput),
     exceedsMaxFinite |-> ExceedsMaxFinite(exactInput),
     atLeastRoundingLimit |-> AtLeastRoundingLimit(exactInput)]

\* 10^n as a Decimal (n may be negative).
TenTo(n) ==
    IF n >= 0 THEN [l |-> <<10^(n % 4)>> \o Tup([i \in 1..(n \div 4) |-> 0]), s |-> 0]
    ELSE [l |-> <<10^((4 - ((-n) % 4)) % 4)>>, s |-> ((-n) + 3) \div 4]

\* The integer a digit string writes: the value of its first half times
\* the power of ten of the rest, plus the value of the rest.
RECURSIVE DigitsValue(_)
DigitsValue(cs) ==
    LET Joined(high, low, n) == Plus(Times(high, TenTo(n)), low)
        SplitAt(h) ==
            Joined(DigitsValue(SubSeq(cs, 1, h)), DigitsValue(SubSeq(cs, h + 1, Len(cs))), Len(cs) - h)
    IN  IF Len(cs) <= 4 THEN DecFromNat(DigitsToNat(cs)) ELSE SplitAt(Len(cs) \div 2)

\* The integer a signed digit string writes.
ExponentValue(expo) ==
    IF expo[1] = "-" THEN 0 - DigitsToNat(SubSeq(expo, 2, Len(expo)))
    ELSE IF expo[1] = "+" THEN DigitsToNat(SubSeq(expo, 2, Len(expo)))
    ELSE DigitsToNat(expo)

\* The value of a mantissa, integer part and fraction, times 10^e.
MantissaValue(mant, e) ==
    LET Value(int, frac) == Times(DigitsValue(int \o frac), TenTo(e - Len(frac)))
        SplitAt(d) == Value(SubSeq(mant, 1, d - 1), SubSeq(mant, d + 1, Len(mant)))
        Dots(dots) == IF dots = {} THEN Value(mant, <<>>) ELSE SplitAt(LeastOf(dots))
    IN  Dots({i \in 1..Len(mant) : mant[i] = "."})

\* The value of a literal of the grammar without its sign.
LiteralValue(body) ==
    LET SplitAt(p) ==
            MantissaValue(SubSeq(body, 1, p - 1), ExponentValue(SubSeq(body, p + 1, Len(body))))
        Marks(es) == IF es = {} THEN MantissaValue(body, 0) ELSE SplitAt(LeastOf(es))
    IN  Marks({i \in 1..Len(body) : body[i] \in {"e", "E"}})

AuditString(str) ==
    IF DecimalLiteral(str)
    THEN AuditExact(LiteralValue(IF str[1] = "-" THEN SubSeq(str, 2, Len(str)) ELSE str))
    ELSE NoLiteral

AuditLiteral(ps) ==
    IF Len(ps) = 1 /\ ps[1].type = "string" THEN AuditString(ps[1].v) ELSE NoLiteral

NoNumber == [finite |-> FALSE]

\* The reference value of a finite number a call returned: its sign bit and
\* its magnitude.
AuditReturned(r) ==
    IF r.kind = "return" /\ r.value.type = "number" /\ ExpFieldOf(r.value.v) # ExpFieldMax
    THEN [finite |-> TRUE, sign |-> SignOf(r.value.v), magnitude |-> IeeeValue(r.value.v)]
    ELSE NoNumber

Audit(ps, r) ==
    [calls |-> AuditCalls(r.calls), literal |-> AuditLiteral(ps), returned |-> AuditReturned(r)]

NoAudit == [calls |-> <<>>, literal |-> NoLiteral, returned |-> NoNumber]

\* ------------------------------------------------------------------------
\* The arguments the model calls stringify and parse with.
\* ------------------------------------------------------------------------

\* Numbers: every sign, the exponents within ExpSpread of the bias and the
\* TopMantBits high mantissa bits; mantissas that use all 52 bits; the ends
\* of the subnormal and normal ranges; the non-finite values.
ExpSpread == 3

TopMantBits == 2

\* Strings: every string of at most MaxStrLen characters of Alphabet, and
\* longer strings of each form the grammar and the error cases distinguish.
MaxStrLen == 3

Alphabet == {"-", "+", "0", "1", "5", ".", "e", "E", "x"}

\* The mantissa of the number nearest 0.1: 1001 1001 ... 1001 1010.
TenthMantissa == [i \in 1..MantissaBits |->
                    IF i > MantissaBits - 4 THEN (IF i % 2 = 1 THEN 1 ELSE 0)
                    ELSE (IF i % 4 \in {0, 1} THEN 1 ELSE 0)]

LowBit == Zeros(MantissaBits - 1) \o <<1>>

MidNumbers ==
    {MakeNumber(sg, e, NatToBits(m, TopMantBits) \o Zeros(MantissaBits - TopMantBits)) :
        sg \in 0..1, e \in (ExponentBias - ExpSpread)..(ExponentBias + ExpSpread),
        m \in 0..(2^TopMantBits - 1)}

FullMantissaNumbers ==
    {MakeNumber(sg, e, m) :
        sg \in 0..1, e \in {ExponentBias - 4, ExponentBias, ExponentBias + MantissaBits},
        m \in {Ones(MantissaBits), LowBit, TenthMantissa}}

ExtremeNumbers ==
    {PosZero, NegZero,
     MakeNumber(0, 0, LowBit),                          \* the least subnormal
     MakeNumber(1, 0, Ones(MantissaBits)),              \* the greatest subnormal, negated
     MakeNumber(0, 1, Zeros(MantissaBits)),             \* the least normal number
     MakeNumber(0, ExpFieldMax - 1, Ones(MantissaBits)),  \* the greatest finite number
     MakeNumber(1, ExpFieldMax - 1, Zeros(MantissaBits))}

NonFiniteNumbers ==
    {PosInfinity, NegInfinity, NaNValue, MakeNumber(1, ExpFieldMax, Ones(MantissaBits))}

Numbers == MidNumbers \cup FullMantissaNumbers \cup ExtremeNumbers \cup NonFiniteNumbers

ShortStrings == UNION {[1..n -> Alphabet] : n \in 0..MaxStrLen}

LongStrings ==
    {<<"0", ".", "5">>,
     <<"0", ".", "5", "0">>,
     <<"5", "e", "-", "1">>,
     <<"0", ".", "1">>,
     <<"0", ".", "2", "5">>,
     <<"-", "0", ".", "5">>,
     <<"-", "0", ".", "0">>,
     <<"1", "e", "+", "1">>,
     <<"-", "1", "e", "-", "1">>,
     <<"1", ".", "5", "E", "1">>,
     <<"1", "e", "2", "2">>,
     <<"1", "e", "2", "3">>,
     <<"1", "e", "4", "0", "0">>,
     <<"-", "1", "e", "4", "0", "0">>,
     <<"1", "e", "-", "4", "0", "0">>,
     <<"1", ".", "7", "9", "7", "6", "9", "3", "1", "3", "4", "8", "6", "2", "3", "1", "5", "7", "e", "3", "0", "8">>,
     <<"1", ".", "7", "9", "7", "6", "9", "3", "1", "3", "4", "8", "6", "2", "3", "1", "5", "8", "e", "3", "0", "8">>,
     <<"1", ".", "7", "9", "7", "6", "9", "3", "1", "3", "4", "8", "6", "2", "3", "1", "5", "9", "e", "3", "0", "8">>,
     <<"-", "1", ".", "7", "9", "7", "6", "9", "3", "1", "3", "4", "8", "6", "2", "3", "1", "5", "8", "e", "3", "0", "8">>,
     \* 2^1024 - 2^970 - 1 and 2^1024 - 2^970
     <<"1", "7", "9", "7", "6", "9", "3", "1", "3", "4", "8", "6", "2", "3", "1", "5", "8", "0", "7", "9", "3", "7", "2", "8", "9", "7", "1", "4", "0", "5", "3", "0", "3", "4", "1", "5", "0", "7", "9", "9", "3", "4", "1", "3", "2", "7", "1", "0", "0", "3", "7", "8", "2", "6", "9", "3", "6", "1", "7", "3", "7", "7", "8", "9", "8", "0", "4", "4", "4", "9", "6", "8", "2", "9", "2", "7", "6", "4", "7", "5", "0", "9", "4", "6", "6", "4", "9", "0", "1", "7", "9", "7", "7", "5", "8", "7", "2", "0", "7", "0", "9", "6", "3", "3", "0", "2", "8", "6", "4", "1", "6", "6", "9", "2", "8", "8", "7", "9", "1", "0", "9", "4", "6", "5", "5", "5", "5", "4", "7", "8", "5", "1", "9", "4", "0", "4", "0", "2", "6", "3", "0", "6", "5", "7", "4", "8", "8", "6", "7", "1", "5", "0", "5", "8", "2", "0", "6", "8", "1", "9", "0", "8", "9", "0", "2", "0", "0", "0", "7", "0", "8", "3", "8", "3", "6", "7", "6", "2", "7", "3", "8", "5", "4", "8", "4", "5", "8", "1", "7", "7", "1", "1", "5", "3", "1", "7", "6", "4", "4", "7", "5", "7", "3", "0", "2", "7", "0", "0", "6", "9", "8", "5", "5", "5", "7", "1", "3", "6", "6", "9", "5", "9", "6", "2", "2", "8", "4", "2", "9", "1", "4", "8", "1", "9", "8", "6", "0", "8", "3", "4", "9", "3", "6", "4", "7", "5", "2", "9", "2", "7", "1", "9", "0", "7", "4", "1", "6", "8", "4", "4", "4", "3", "6", "5", "5", "1", "0", "7", "0", "4", "3", "4", "2", "7", "1", "1", "5", "5", "9", "6", "9", "9", "5", "0", "8", "0", "9", "3", "0", "4", "2", "8", "8", "0", "1", "7", "7", "9", "0", "4", "1", "7", "4", "4", "9", "7", "7", "9", "1">>,
     <<"1", "7", "9", "7", "6", "9", "3", "1", "3", "4", "8", "6", "2", "3", "1", "5", "8", "0", "7", "9", "3", "7", "2", "8", "9", "7", "1", "4", "0", "5", "3", "0", "3", "4", "1", "5", "0", "7", "9", "9", "3", "4", "1", "3", "2", "7", "1", "0", "0", "3", "7", "8", "2", "6", "9", "3", "6", "1", "7", "3", "7", "7", "8", "9", "8", "0", "4", "4", "4", "9", "6", "8", "2", "9", "2", "7", "6", "4", "7", "5", "0", "9", "4", "6", "6", "4", "9", "0", "1", "7", "9", "7", "7", "5", "8", "7", "2", "0", "7", "0", "9", "6", "3", "3", "0", "2", "8", "6", "4", "1", "6", "6", "9", "2", "8", "8", "7", "9", "1", "0", "9", "4", "6", "5", "5", "5", "5", "4", "7", "8", "5", "1", "9", "4", "0", "4", "0", "2", "6", "3", "0", "6", "5", "7", "4", "8", "8", "6", "7", "1", "5", "0", "5", "8", "2", "0", "6", "8", "1", "9", "0", "8", "9", "0", "2", "0", "0", "0", "7", "0", "8", "3", "8", "3", "6", "7", "6", "2", "7", "3", "8", "5", "4", "8", "4", "5", "8", "1", "7", "7", "1", "1", "5", "3", "1", "7", "6", "4", "4", "7", "5", "7", "3", "0", "2", "7", "0", "0", "6", "9", "8", "5", "5", "5", "7", "1", "3", "6", "6", "9", "5", "9", "6", "2", "2", "8", "4", "2", "9", "1", "4", "8", "1", "9", "8", "6", "0", "8", "3", "4", "9", "3", "6", "4", "7", "5", "2", "9", "2", "7", "1", "9", "0", "7", "4", "1", "6", "8", "4", "4", "4", "3", "6", "5", "5", "1", "0", "7", "0", "4", "3", "4", "2", "7", "1", "1", "5", "5", "9", "6", "9", "9", "5", "0", "8", "0", "9", "3", "0", "4", "2", "8", "8", "0", "1", "7", "7", "9", "0", "4", "1", "7", "4", "4", "9", "7", "7", "9", "2">>,
     <<"2", "e", "3", "0", "8">>,
     <<"5", "e", "-", "3", "2", "4">>,
     <<"9", "0", "0", "7", "1", "9", "9", "2", "5", "4", "7", "4", "0", "9", "9", "2">>,
     <<"9", "0", "0", "7", "1", "9", "9", "2", "5", "4", "7", "4", "0", "9", "9", "3">>,
     <<"4", "5", "0", "3", "5", "9", "9", "6", "2", "7", "3", "7", "0", "4", "9", "7", ".", "5">>,
     <<"0", ".", "1", "0">>,
     <<"0", "0">>,
     <<"0", ".">>,
     <<"1", ".", "e", "1">>,
     <<"1", "e">>,
     <<"1", "e", "+">>,
     <<"-", "-", "1">>,
     <<"1", " ">>,
     <<"0", "x", "1", "0">>,
     <<"1", ",", "5">>,
     <<".", "5">>,
     <<"-">>,
     <<"N", "a", "N", "x">>,
     <<"n", "a", "n">>,
     <<"i", "n", "f", "i", "n", "i", "t", "y">>,
     <<"+", "I", "n", "f", "i", "n", "i", "t", "y">>,
     <<"-", "N", "a", "N">>,
     <<"I", "n", "f", "i", "n", "i", "t", "y", "1">>}

Strings == ShortStrings \cup LongStrings \cup SpecialStrings

OnePointFive == MakeNumber(0, ExponentBias, <<1>> \o Zeros(MantissaBits - 1))

\* Calls with no argument, two arguments, or one argument of another type.
GuardParams ==
    {<<>>,
     <<NumberValue(OnePointFive), NumberValue(OnePointFive)>>,
     <<NumberValue(NaNValue), StringValue(<<"1">>)>>,
     <<StringValue(<<"1">>), StringValue(<<"1">>)>>,
     <<StringValue(NaNChars), NumberValue(PosZero)>>,
     <<Undefined, Undefined>>,
     <<Undefined>>,
     <<OtherValue("object")>>,
     <<OtherValue("boolean")>>,
     <<OtherValue("bigint")>>,
     <<StringValue(<<"1", ".", "5">>)>>,
     <<StringValue(NaNChars)>>,
     <<NumberValue(OnePointFive)>>,
     <<NumberValue(NaNValue)>>}

StringifyParams == {<<NumberValue(v)>> : v \in Numbers} \cup GuardParams

ParseParams == {<<StringValue(str)>> : str \in Strings} \cup GuardParams

\* ------------------------------------------------------------------------
\* The state machine: a caller that calls stringify and parse, one call at
\* a time (both are synchronous), and may parse what stringify returned.
\* ------------------------------------------------------------------------

NoCall == [op |-> "none", params |-> <<>>]

NoOutcome == [kind |-> "none", value |-> Undefined]

NoSource == OtherValue("none")

\* Module load: Decimal.set({ precision: 10000 }).
Init ==
    /\ precision = Precision
    /\ pc = "idle"
    /\ op = "none"
    /\ params = <<>>
    /\ outcome = NoOutcome
    /\ calls = <<>>
    /\ source = NoSource
    /\ audit = NoAudit
    /\ memo = NoCall

\* The state after a call of `name` with `ps` that ended as `r`.
Finish(name, ps, r, src) ==
    /\ pc' = "done"
    /\ op' = name
    /\ params' = ps
    /\ outcome' = [kind |-> r.kind, value |-> r.value]
    /\ calls' = r.calls
    /\ precision' = r.precision
    /\ source' = src
    /\ audit' = Audit(ps, r)
    /\ UNCHANGED memo

Stringify(ps) ==
    /\ pc = "idle"
    /\ Finish("stringify", ps, stringify(ps), NoSource)

Parse(ps) ==
    /\ pc = "idle"
    /\ Finish("parse", ps, parse(ps), NoSource)

\* parse(stringify(x)): parse is given the string stringify just returned.
ParseBack ==
    /\ pc = "done"
    /\ op = "stringify"
    /\ outcome.kind = "return"
    /\ Finish("parse", <<outcome.value>>, parse(<<outcome.value>>), params[1])

Forget ==
    /\ pc' = "idle"
    /\ op' = "none"
    /\ params' = <<>>
    /\ outcome' = NoOutcome
    /\ calls' = <<>>
    /\ source' = NoSource
    /\ audit' = NoAudit
    /\ UNCHANGED precision

\* The caller goes on to its next call.
Reset ==
    /\ pc = "done"
    /\ Forget
    /\ UNCHANGED memo

\* The caller goes on, keeping this call and its outcome to compare a later
\* call with.
Remember ==
    /\ pc = "done"
    /\ memo = NoCall
    /\ Forget
    /\ memo' = [op |-> op, params |-> params, outcome |-> outcome]

Next ==
    \/ \E ps \in StringifyParams : Stringify(ps)
    \/ \E ps \in ParseParams : Parse(ps)
    \/ ParseBack
    \/ Reset

Spec == Init /\ [][Next]_vars

\* A caller that repeats calls: a few arguments, and the memory of one
\* earlier call.
RepeatNumbers ==
    {PosZero, NegZero, NaNValue, NegInfinity, OnePointFive,
     MakeNumber(1, ExponentBias - 4, TenthMantissa)}

RepeatStrings ==
    {NaNChars, <<"0", ".", "5">>, <<"0", ".", "1">>, <<"-", "0">>, <<"1", "e", "4", "0", "0">>,
     <<"0", "1">>}

RepeatParams ==
    {<<NumberValue(v)>> : v \in RepeatNumbers} \cup {<<StringValue(str)>> : str \in RepeatStrings}
    \cup {<<>>}

NextRepeat ==
    \/ \E ps \in RepeatParams : Stringify(ps)
    \/ \E ps \in RepeatParams : Parse(ps)
    \/ ParseBack
    \/ Reset
    \/ Remember

SpecRepeat == Init /\ [][NextRepeat]_vars

\* ------------------------------------------------------------------------
\* Properties.  Each reads the recorded call (op, params, outcome, calls,
\* source) and the reference values recorded beside it (audit).
\* ------------------------------------------------------------------------

\* The numbers and strings the properties name.
Half == MakeNumber(0, ExponentBias - 1, Zeros(MantissaBits))

GreatestSubnormal == MakeNumber(0, 0, Ones(MantissaBits))

ParsedString == pc = "done" /\ op = "parse" /\ Len(params) = 1 /\ params[1].type = "string"

ParsedLiteral == ParsedString /\ audit.literal.grammar

StringifiedNumber == pc = "done" /\ op = "stringify" /\ Len(params) = 1 /\ params[1].type = "number"

ParsedChars(cs) == ParsedString /\ params[1].v = cs

StringifiedBits(v) == StringifiedNumber /\ params[1].v = v

Returned(v) == outcome = [kind |-> "return", value |-> v]

\* C1. Round trip: stringify returns a string for every finite number x,
\* and parse of that string returns, without error, the number with the
\* bits of x (the sign of zero included).
C1_RoundTrip ==
    /\ (StringifiedNumber /\ ExpFieldOf(params[1].v) # ExpFieldMax)
        => (outcome.kind = "return" /\ outcome.value.type = "string")
    /\ (pc = "done" /\ op = "parse" /\ source.type = "number"
        /\ ExpFieldOf(source.v) # ExpFieldMax)
        => Returned(source)

\* C1 witness: the string of the negated greatest subnormal number has been
\* parsed back to that number.
C1_Witness ==
    /\ pc = "done" /\ op = "parse"
    /\ source = NumberValue(Negate(GreatestSubnormal))
    /\ Returned(source)

C4_AboveMaxFinite ==
    (ParsedLiteral /\ audit.literal.exceedsMaxFinite) => outcome.kind = "MagnitudeError"

\* C4 amended: a literal fails with MagnitudeError exactly when its magnitude
\* is at least 2^1024 - 2^970, the least magnitude that rounds to Infinity;
\* a literal above the greatest finite number and below that limit rounds
\* to the greatest finite number and fails with PrecisionLossError.
C4_AtLeastRoundingLimit ==
    ParsedLiteral
        => /\ outcome.kind = "MagnitudeError" <=> audit.literal.atLeastRoundingLimit
           /\ (audit.literal.exceedsMaxFinite /\ ~audit.literal.atLeastRoundingLimit)
               => outcome.kind = "PrecisionLossError"

\* C4 witness: a literal above the greatest finite number and below the
\* limit has failed with PrecisionLossError.
C4_Witness ==
    /\ ParsedLiteral
    /\ audit.literal.exceedsMaxFinite
    /\ ~audit.literal.atLeastRoundingLimit
    /\ outcome.kind = "PrecisionLossError"

\* C5. For a string other than "NaN", "Infinity" and "-Infinity", parse
\* fails with SyntaxError exactly when the string is not of the grammar;
\* "01", "", "1.", "+1" and strings with trailing characters fail with
\* SyntaxError.
C5_SyntaxError ==
    /\ (ParsedString /\ params[1].v \notin SpecialStrings)
        => (outcome.kind = "SyntaxError" <=> ~audit.literal.grammar)
    /\ (ParsedString
        /\ params[1].v \in {<<"0", "1">>, <<>>, <<"1", ".">>, <<"+", "1">>,
                            <<"1", " ">>, <<"1", "x">>, <<"N", "a", "N", "x">>})
        => outcome.kind = "SyntaxError"

\* C5 witness: parse("01") has failed with SyntaxError.
C5_Witness == ParsedChars(<<"0", "1">>) /\ outcome.kind = "SyntaxError"

\* C6. Special values: stringify gives "NaN" for NaN, "Infinity" and
\* "-Infinity" for the infinities, "-0" for negative zero and "0" for
\* positive zero, and parse of each of these strings returns that value.
C6_SpecialValues ==
    /\ (StringifiedNumber /\ NumberIsNaN(params[1].v)) => Returned(StringValue(NaNChars))
    /\ StringifiedBits(PosInfinity) => Returned(StringValue(InfinityChars))
    /\ StringifiedBits(NegInfinity) => Returned(StringValue(<<"-">> \o InfinityChars))
    /\ StringifiedBits(NegZero) => Returned(StringValue(<<"-", "0">>))
    /\ StringifiedBits(PosZero) => Returned(StringValue(<<"0">>))
    /\ ParsedChars(NaNChars)
        => (outcome.kind = "return" /\ outcome.value.type = "number"
            /\ NumberIsNaN(outcome.value.v))
    /\ ParsedChars(InfinityChars) => Returned(NumberValue(PosInfinity))
    /\ ParsedChars(<<"-">> \o InfinityChars) => Returned(NumberValue(NegInfinity))
    /\ ParsedChars(<<"-", "0">>) => Returned(NumberValue(NegZero))
    /\ ParsedChars(<<"0">>) => Returned(NumberValue(PosZero))

\* C6 witness: stringify(-0) has returned "-0".
C6_Witness == StringifiedBits(NegZero) /\ Returned(StringValue(<<"-", "0">>))

\* C7. Guards: a call of stringify or parse fails with ArityError exactly
\* when it has not one argument, whatever the arguments are, and with
\* TypeError exactly when it has one argument of another type than the
\* operation's; such a call carries no value and has made no
\* _getExactDecimal call.
C7_Guards ==
    pc = "done"
        => /\ Len(params) # 1 <=> outcome.kind = "ArityError"
           /\ (Len(params) = 1
               /\ params[1].type # (IF op = "stringify" THEN "number" ELSE "string"))
               <=> outcome.kind = "TypeError"
           /\ outcome.kind \in {"ArityError", "TypeError"}
               => (outcome.value = Undefined /\ calls = <<>>)

\* C7 witness: parse("NaN", 0) has failed with ArityError.
C7_Witness ==
    /\ pc = "done" /\ op = "parse"
    /\ Len(params) = 2 /\ params[1] = StringValue(NaNChars)
    /\ outcome.kind = "ArityError"

\* C8. Purity: the working precision stays as set at module load, and a
\* call with the arguments of an earlier call of the same operation has
\* the outcome of that earlier call.
C8_Purity ==
    /\ precision = Precision
    /\ (pc = "done" /\ memo.op = op /\ memo.params = params) => memo.outcome = outcome

\* C8 witness: parse("0.1") has been called again after an earlier
\* parse("0.1").
C8_Witness ==
    /\ ParsedChars(<<"0", ".", "1">>)
    /\ memo.op = "parse"
    /\ memo.params = params

\* C9. Exactness: for every _getExactDecimal call made, _decodeFloat gives
\* the exponent field (0..2046) and the mantissa field (below 2^52) of the
\* argument, and the result is the argument's exact value,
\* mantissa * 2^(-1074) for exponent 0 and (2^52 + mantissa) *
\* 2^(exponent - 1075) otherwise.
C9_Exactness ==
    \A i \in 1..Len(calls) :
        /\ audit.calls[i].exponent = audit.calls[i].ieeeExponent
        /\ audit.calls[i].exponent \in 0..(ExpFieldMax - 1)
        /\ audit.calls[i].mantissa = audit.calls[i].ieeeMantissa
        /\ audit.calls[i].mantissaInRange
        /\ calls[i].result = audit.calls[i].ieeeValue

\* C9 witness: _getExactDecimal has been called with a subnormal number
\* whose mantissa uses all 52 bits, and returned its exact value.
C9_Witness ==
    /\ Len(calls) = 1
    /\ calls[1].arg = GreatestSubnormal
    /\ calls[1].result = audit.calls[1].ieeeValue
    /\ calls[1].result # DecZero

\* C10. Decoder precondition: every _getExactDecimal call made has a
\* non-negative finite argument (sign bit 0, exponent field not 2047);
\* stringify of a non-finite number and a parse that fails with
\* MagnitudeError make no such call.
C10_DecoderPrecondition ==
    /\ \A i \in 1..Len(calls) :
          SignOf(calls[i].arg) = 0 /\ ExpFieldOf(calls[i].arg) # ExpFieldMax
    /\ (StringifiedNumber /\ ExpFieldOf(params[1].v) = ExpFieldMax) => calls = <<>>
    /\ outcome.kind = "MagnitudeError" => calls = <<>>

\* C10 witness: stringify of a negative number has called _getExactDecimal
\* with its negation.
C10_Witness ==
    /\ StringifiedNumber
    /\ SignOf(params[1].v) = 1
    /\ Len(calls) = 1
    /\ SignOf(calls[1].arg) = 0
    /\ calls[1].arg = [params[1].v EXCEPT ![1] = 0]

====
